---- MODULE Spec2Model ----
(***************************************************************************)
(* A model of etl.py: the two-phase load of a song-metadata tree and a     *)
(* log tree into the songs / artists / time / users / songplays tables,    *)
(* one transaction per input file.                                         *)
(*                                                                         *)
(* The SQL statements live in sql_queries.py, which etl.py imports; their  *)
(* conflict policies are modelled from the specification's section 4.4     *)
(* and 6 (ConflictPolicy, song_select and the statements built on them).   *)
(***************************************************************************)
EXTENDS Integers, Sequences, FiniteSets, TLC

\* ------------------------------------------------------------------ bounds
MaxSongFiles == 2
MaxLogFiles == 2
MaxRuns == 2

\* ------------------------------------------------------------ input values
NULL == "NULL"

SongCols == {"song_id", "title", "artist_id", "year", "duration"}
ArtistCols == {"artist_id", "artist_name", "artist_location", "artist_latitude", "artist_longitude"}
UserCols == {"userId", "firstName", "lastName", "gender", "level"}
LogCols == UserCols \cup {"page", "ts", "song", "artist", "length", "sessionId", "location", "userAgent"}

\* Durations are written as in the JSON text ("200.5"): the lookup compares
\* them for exact equality.
SongRec(sid, title, aid, name, dur) ==
    [song_id |-> sid, title |-> title, artist_id |-> aid, year |-> 2000, duration |-> dur,
     artist_name |-> name, artist_location |-> "L", artist_latitude |-> 1, artist_longitude |-> 2]

s1 == SongRec("S1", "T", "A1", "X", "200.5")
s2 == SongRec("S2", "V", "A2", "W", "150.0")
s3 == SongRec("S3", "V", "A2", "W", "150.0")

\* A file on disk: text is "json" (newline-delimited records) or "garbage"
\* (undecodable); absent names the keys no record of the file carries.
File(recs, absent) == [text |-> "json", recs |-> recs, absent |-> absent]
Garbage == [text |-> "garbage", recs |-> <<>>, absent |-> {}]

SongFiles ==
    { File(<<s1>>, {}), File(<<s2, s1>>, {}), File(<<s3>>, {}),
      File(<<>>, {}), Garbage, File(<<s1>>, {"artist_name"}) }

\* Epoch milliseconds as whole seconds plus milliseconds.
Ts(s, ms) == [s |-> s, ms |-> ms]

LogRec(page, ts, uid, first, level, song, artist, length) ==
    [page |-> page, ts |-> ts, userId |-> uid, firstName |-> first, lastName |-> "B",
     gender |-> "F", level |-> level, song |-> song, artist |-> artist, length |-> length,
     sessionId |-> 100, location |-> "LA", userAgent |-> "UA"]

e1 == LogRec("NextSong", Ts(1541105830, 796), "7", "A", "free", "T", "X", "200.5")
e2 == LogRec("NextSong", Ts(1541107053, 796), "7", "A2", "paid", "T", "X", "200.51")
e3 == LogRec("NextSong", Ts(1541105830, 796), "8", "C", "free", "V", "W", "150.0")
h1 == LogRec("Home", Ts(1541106106, 796), "7", "A", "paid", NULL, NULL, NULL)

LogFiles ==
    { File(<<e1, h1, e2>>, {}), File(<<e2, e3, e1>>, {}), File(<<h1>>, {}),
      Garbage, File(<<e1>>, {"level"}), File(<<e1>>, {"song"}) }

RECURSIVE SeqsUpTo(_, _)
SeqsUpTo(S, n) ==
    IF n = 0 THEN {<<>>}
    ELSE LET shorter == SeqsUpTo(S, n - 1)
         IN shorter \cup {Append(q, x) : q \in {r \in shorter : Len(r) = n - 1}, x \in S}

SongTrees == SeqsUpTo(SongFiles, MaxSongFiles)
LogTrees == SeqsUpTo(LogFiles, MaxLogFiles)

\* --------------------------------------------------------- pandas helpers
\* pd.read_json(filepath, lines=True): the frame's rows and columns.
ReadJson(file, cols) ==
    [rows |-> file.recs,
     cols |-> IF Len(file.recs) = 0 THEN {} ELSE cols \ file.absent]

\* Faulty variant: the page filter left out.
FilterAll(frame) == frame
\* df[df["page"] == 'NextSong']
FilterNextSong(frame) ==
    [frame EXCEPT !.rows = SelectSeq(frame.rows, LAMBDA r : r.page = "NextSong")]

\* datetime.datetime.fromtimestamp(x/1000.0), the process's zone taken as UTC:
\* the value keeps the seconds and the milliseconds (as microseconds).
FromTimestamp(ts) == [s |-> ts.s, us |-> ts.ms * 1000]

\* Calendar fields of a datetime (proleptic Gregorian, UTC).
IsLeap(y) == (y % 4 = 0 /\ y % 100 # 0) \/ y % 400 = 0
Civil(days) ==
    LET z == days + 719468
        era == z \div 146097
        doe == z - era * 146097
        yoe == (doe - doe \div 1460 + doe \div 36524 - doe \div 146096) \div 365
        doy == doe - (365 * yoe + yoe \div 4 - yoe \div 100)
        mp == (5 * doy + 2) \div 153
        d == doy - (153 * mp + 2) \div 5 + 1
        m == IF mp < 10 THEN mp + 3 ELSE mp - 9
        y == yoe + era * 400 + (IF m <= 2 THEN 1 ELSE 0)
    IN [year |-> y, month |-> m, day |-> d]
DaysBefore(y, m) ==
    LET cum == <<0, 31, 59, 90, 120, 151, 181, 212, 243, 273, 304, 334>>
    IN cum[m] + (IF m > 2 /\ IsLeap(y) THEN 1 ELSE 0)
WeeksInYear(y) ==
    LET P(n) == (n + n \div 4 - n \div 100 + n \div 400) % 7
    IN IF P(y) = 4 \/ P(y - 1) = 3 THEN 53 ELSE 52
Weekday(days) == (days + 3) % 7
IsoWeek(days) ==
    LET c == Civil(days)
        ordinal == DaysBefore(c.year, c.month) + c.day
        w == (ordinal - (Weekday(days) + 1) + 10) \div 7
    IN IF w < 1 THEN WeeksInYear(c.year - 1)
       ELSE IF w > WeeksInYear(c.year) THEN 1 ELSE w

\* t = df['ts'].apply(...)
Timestamps(frame) == [k \in 1..Len(frame.rows) |-> FromTimestamp(frame.rows[k].ts)]

\* time_data / time_df: one row per element of t.
TimeData(t) ==
    [k \in 1..Len(t) |->
        LET days == t[k].s \div 86400
            c == Civil(days)
        IN [start_time |-> t[k], hour |-> (t[k].s % 86400) \div 3600, day |-> c.day,
            week |-> IsoWeek(days), month |-> c.month, year |-> c.year,
            weekday |-> Weekday(days)]]

\* user_df = df[['userId', 'firstName', 'lastName', 'gender', 'level']]
Project(r) ==
    [user_id |-> r.userId, first_name |-> r.firstName, last_name |-> r.lastName,
     gender |-> r.gender, level |-> r.level]
RECURSIVE FirstPerUser(_)
FirstPerUser(rows) ==
    IF rows = <<>> THEN <<>>
    ELSE LET front == SubSeq(rows, 1, Len(rows) - 1)
             last == rows[Len(rows)]
         IN IF \E k \in 1..Len(front) : front[k].user_id = last.user_id
            THEN FirstPerUser(front)
            ELSE Append(FirstPerUser(front), last)
\* Faulty variant: user_df.drop_duplicates('userId'), keeping each user's first row.
UserDfDeduplicated(frame) == FirstPerUser([k \in 1..Len(frame.rows) |-> Project(frame.rows[k])])
UserDf(frame) == [k \in 1..Len(frame.rows) |-> Project(frame.rows[k])]

\* song_data[0] and artist_data: the first record of the frame.
SongData(frame) ==
    LET r == frame.rows[1]
    IN [song_id |-> r.song_id, title |-> r.title, artist_id |-> r.artist_id,
        year |-> r.year, duration |-> r.duration]
ArtistData(frame) ==
    LET r == frame.rows[1]
    IN [artist_id |-> r.artist_id, name |-> r.artist_name, location |-> r.artist_location,
        latitude |-> r.artist_latitude, longitude |-> r.artist_longitude]

\* Faulty variant: song and artist in the wrong order.
SongSelectParamsSwapped(row) == <<row.artist, row.song, row.length>>
\* (row.song, row.artist, row.length)
SongSelectParams(row) == <<row.song, row.artist, row.length>>

\* Faulty variant: only the song id is taken from the result.
ResolveIdsPartial(results) ==
    IF results # <<>> THEN [song_id |-> results[1], artist_id |-> NULL]
    ELSE [song_id |-> NULL, artist_id |-> NULL]
\* if results: songid, artistid = results  else: None, None
\* (results is <<>> for None, else <<song_id, artist_id>>)
ResolveIds(results) ==
    IF results # <<>> THEN [song_id |-> results[1], artist_id |-> results[2]]
    ELSE [song_id |-> NULL, artist_id |-> NULL]

\* songplay_data
SongplayData(tk, row, ids) ==
    [start_time |-> tk, user_id |-> row.userId, level |-> row.level,
     song_id |-> ids.song_id, artist_id |-> ids.artist_id, session_id |-> row.sessionId,
     location |-> row.location, user_agent |-> row.userAgent]

\* --------------------------------------------------- the destination store
Dimensions == {"songs", "artists", "time", "users"}
EmptyDb == [songs |-> {}, artists |-> {}, time |-> {}, users |-> {}, songplays |-> <<>>]

\* The natural key of each dimension table (its PRIMARY KEY).
KeyOf(table) ==
    CASE table = "songs" -> "song_id"
      [] table = "artists" -> "artist_id"
      [] table = "time" -> "start_time"
      [] table = "users" -> "user_id"

\* Faulty variant: plain INSERT statements, which the primary key rejects.
PlainInsertPolicy(table) == "error"
\* What each dimension's insert statement does when the key is present:
\* "skip" (conflict is a no-op), "update_level", or "error".
ConflictPolicy(table) == IF table = "users" THEN "update_level" ELSE "skip"

\* A stored row carries the file whose statement created it (src) and, for
\* users, the file whose statement last wrote level (upd).
Stored(table, row, at) ==
    IF table = "users" THEN row @@ [src |-> at, upd |-> at] ELSE row @@ [src |-> at]

\* song_table_insert, artist_table_insert, time_table_insert, user_table_insert
Insert(db, table, row, at) ==
    LET key == KeyOf(table)
        hit == {r \in db[table] : r[key] = row[key]}
        policy == ConflictPolicy(table)
    IN IF hit = {}
       THEN [err |-> "none", db |-> [db EXCEPT ![table] = @ \cup {Stored(table, row, at)}]]
       ELSE IF policy = "skip" THEN [err |-> "none", db |-> db]
       ELSE IF policy = "update_level"
       THEN [err |-> "none",
             db |-> [db EXCEPT ![table] =
                        (@ \ hit) \cup {[r EXCEPT !.level = row.level, !.upd = at] : r \in hit}]]
       ELSE [err |-> "UniqueViolation", db |-> db]

\* songplay_table_insert: songplay_id is generated.
InsertSongplay(db, row, at) ==
    [err |-> "none",
     db |-> [db EXCEPT !.songplays =
                Append(@, row @@ [songplay_id |-> Len(@) + 1, src |-> at])]]

\* song_select: the (song_id, artist_id) of every song joined to its artist
\* with the given title, artist name and duration.
SongSelect(db, params) ==
    {<<s.song_id, a.artist_id>> : <<s, a>> \in
        {pr \in db.songs \X db.artists :
            /\ pr[1].artist_id = pr[2].artist_id
            /\ pr[1].title = params[1]
            /\ pr[2].name = params[2]
            /\ pr[1].duration = params[3]}}

\* cur.fetchone(): any row of the result (the query has no ORDER BY), or None.
Fetchone(result) == IF result = {} THEN {<<>>} ELSE result

\* ------------------------------------------------------------------- state
VARIABLES
    disk,       \* the input trees, as found by os.walk
    run,        \* which invocation of main this is
    p,          \* main: which process_data call is running
    pc,         \* position in the code
    all_files,  \* process_data: all_files
    i,          \* process_data: the loop index
    df,         \* the current file's data frame
    j,          \* the row loop's position
    work,       \* the store as the open transaction sees it
    store,      \* the committed store
    executed,   \* the statements executed in the open transaction
    stdout,     \* the lines printed by this run
    failed      \* the exception that ended the run

vars == <<disk, run, p, pc, all_files, i, df, j, work, store, executed, stdout, failed>>

\* Faulty variant: the log tree loaded before the song tree.
CallsLogsFirst ==
    << [filepath |-> "log_data", func |-> "process_log_file"],
       [filepath |-> "song_data", func |-> "process_song_file"] >>
\* main: the two process_data calls, in order.
Calls ==
    << [filepath |-> "song_data", func |-> "process_song_file"],
       [filepath |-> "log_data", func |-> "process_log_file"] >>

\* Faulty variant: conn.set_session(autocommit=True).
AutocommitOn == TRUE
\* psycopg2.connect(...) leaves the connection's autocommit off.
Autocommit == FALSE

Trees(filepath) == IF filepath = "song_data" THEN SongTrees ELSE LogTrees
EmptyFrame == [rows |-> <<>>, cols |-> {}]
NoFailure == [error |-> "none", at |-> <<0, "", 0>>]

filepath == Calls[p].filepath
func == Calls[p].func
Here == <<run, filepath, i>>
SongplayCols == {"song", "artist", "length", "userId", "level", "sessionId", "location", "userAgent"}

Init ==
    /\ disk = [d \in {} |-> <<>>]
    /\ run = 1
    /\ p = 1
    /\ pc = "walk"
    /\ all_files = <<>>
    /\ i = 0
    /\ df = EmptyFrame
    /\ j = 0
    /\ work = EmptyDb
    /\ store = EmptyDb
    /\ executed = <<>>
    /\ stdout = <<>>
    /\ failed = NoFailure

\* Faulty variant: the loop catches the exception, rolls back and goes on.
SkipAndContinue(err) ==
    /\ failed' = [error |-> err, at |-> Here]
    /\ work' = store
    /\ executed' = <<>>
    /\ pc' = "commit"
    /\ UNCHANGED <<disk, run, p, all_files, i, df, j, store, stdout>>
\* An exception leaves func, process_data and main: the process ends with the
\* transaction open, and the server discards it.
Raise(err) ==
    /\ failed' = [error |-> err, at |-> Here]
    /\ work' = store
    /\ executed' = <<>>
    /\ pc' = "aborted"
    /\ UNCHANGED <<disk, run, p, all_files, i, df, j, store, stdout>>

\* cur.execute(statement, params) with the statement's outcome res.
Execute(stmt, params, res, nextpc, nextj) ==
    IF res.err # "none" THEN Raise(res.err)
    ELSE /\ work' = res.db
         /\ pc' = nextpc
         /\ store' = IF Autocommit THEN res.db ELSE store
         /\ executed' = Append(executed, [stmt |-> stmt, params |-> params, at |-> Here])
         /\ j' = nextj
         /\ UNCHANGED <<disk, run, p, all_files, i, df, stdout, failed>>

\* The end of process_data's loop: main's next call, or conn.close().
AfterLoop ==
    IF p < Len(Calls) THEN p' = p + 1 /\ pc' = "walk" ELSE p' = p /\ pc' = "close"

\* process_data, lines 100-109: enumerate the files and print their number.
Walk ==
    /\ pc = "walk"
    /\ \E tree \in (IF filepath \in DOMAIN disk THEN {disk[filepath]} ELSE Trees(filepath)) :
        /\ disk' = IF filepath \in DOMAIN disk THEN disk ELSE disk @@ (filepath :> tree)
        /\ all_files' = tree
        /\ stdout' = Append(stdout, [msg |-> "found", n |-> Len(tree), of |-> Len(tree), path |-> filepath])
        /\ IF Len(tree) = 0
           THEN i' = 0 /\ AfterLoop
           ELSE i' = 1 /\ pc' = "open" /\ p' = p
    /\ UNCHANGED <<run, df, j, work, store, executed, failed>>

\* process_song_file, lines 20-23: read the file and take the song columns.
SongOpen ==
    /\ pc = "open" /\ func = "process_song_file"
    /\ LET file == all_files[i]
           frame == ReadJson(file, SongCols \cup ArtistCols)
       IN IF file.text = "garbage" THEN Raise("ValueError")
          ELSE IF ~(SongCols \subseteq frame.cols) THEN Raise("KeyError")
          ELSE /\ df' = frame
               /\ pc' = "song_insert"
               /\ UNCHANGED <<disk, run, p, all_files, i, j, work, store, executed, stdout, failed>>

\* line 24: cur.execute(song_table_insert, list(song_data[0]))
SongInsert ==
    /\ pc = "song_insert"
    /\ LET row == SongData(df)
           res == Insert(work, "songs", row, Here)
       IN Execute("song_table_insert", row, res, "artist_insert", j)

\* lines 27-28: take the artist columns and execute artist_table_insert.
ArtistInsert ==
    /\ pc = "artist_insert"
    /\ IF ~(ArtistCols \subseteq df.cols) THEN Raise("KeyError")
       ELSE LET row == ArtistData(df)
                res == Insert(work, "artists", row, Here)
            IN Execute("artist_table_insert", row, res, "commit", j)

\* process_log_file, lines 50-63: read, filter, convert the timestamps and
\* build time_df.  On a frame the filter leaves empty, t keeps the integer
\* dtype of df['ts'] and t.dt raises, or the frame is processed as empty,
\* depending on the pandas at hand.
LogOpen ==
    /\ pc = "open" /\ func = "process_log_file"
    /\ LET file == all_files[i]
           frame == ReadJson(file, LogCols)
           filtered == FilterNextSong(frame)
       IN IF file.text = "garbage" THEN Raise("ValueError")
          ELSE IF ~({"page", "ts"} \subseteq frame.cols) THEN Raise("KeyError")
          ELSE \/ /\ Len(filtered.rows) = 0
                  /\ Raise("AttributeError")
               \/ /\ df' = filtered
                  /\ pc' = "time_insert"
                  /\ j' = 1
                  /\ UNCHANGED <<disk, run, p, all_files, i, work, store, executed, stdout, failed>>

\* lines 65-66: one time_table_insert per row of time_df.
TimeInsert ==
    /\ pc = "time_insert" /\ j <= Len(df.rows)
    /\ LET row == TimeData(Timestamps(df))[j]
           res == Insert(work, "time", row, Here)
       IN Execute("time_table_insert", row, res, pc, j + 1)

\* line 69: user_df = df[[...]] once the time loop is over.
SelectUserColumns ==
    /\ pc = "time_insert" /\ j > Len(df.rows)
    /\ IF ~(UserCols \subseteq df.cols) THEN Raise("KeyError")
       ELSE /\ pc' = "user_insert"
            /\ j' = 1
            /\ UNCHANGED <<disk, run, p, all_files, i, df, work, store, executed, stdout, failed>>

\* lines 72-73: one user_table_insert per row of user_df.
UserInsert ==
    /\ pc = "user_insert" /\ j <= Len(UserDf(df))
    /\ LET row == UserDf(df)[j]
           res == Insert(work, "users", row, Here)
       IN Execute("user_table_insert", row, res, pc, j + 1)

UserLoopEnd ==
    /\ pc = "user_insert" /\ j > Len(UserDf(df))
    /\ pc' = "songplay_insert"
    /\ j' = 1
    /\ UNCHANGED <<disk, run, p, all_files, i, df, work, store, executed, stdout, failed>>

\* Faulty variant: the insert guarded by "if results".
SongplayRowsResolvedOnly(data, results) == IF results = <<>> THEN <<>> ELSE <<data>>
\* lines 87-89: the rows inserted for one event, whatever the lookup found.
SongplayRows(data, results) == <<data>>

\* lines 76-89: look the event's song up and insert the songplay row.
SongplayInsert ==
    /\ pc = "songplay_insert" /\ j <= Len(df.rows)
    /\ LET row == df.rows[j]
       IN IF ~(SongplayCols \subseteq df.cols) THEN Raise("AttributeError")
          ELSE \E results \in Fetchone(SongSelect(work, SongSelectParams(row))) :
                 LET data == SongplayData(Timestamps(df)[j], row, ResolveIds(results))
                     rows == SongplayRows(data, results)
                 IN IF rows = <<>>
                    THEN /\ j' = j + 1
                         /\ UNCHANGED <<disk, run, p, pc, all_files, i, df, work, store,
                                        executed, stdout, failed>>
                    ELSE Execute("songplay_table_insert", rows[1],
                                 InsertSongplay(work, rows[1], Here), pc, j + 1)

\* process_log_file returns.
SongplayLoopEnd ==
    /\ pc = "songplay_insert" /\ j > Len(df.rows)
    /\ pc' = "commit"
    /\ UNCHANGED <<disk, run, p, all_files, i, df, j, work, store, executed, stdout, failed>>

\* process_data, lines 114-115: conn.commit(), print, and the next file.
Commit ==
    /\ pc = "commit"
    /\ store' = work
    /\ executed' = <<>>
    /\ stdout' = Append(stdout, [msg |-> "processed", n |-> i, of |-> Len(all_files), path |-> filepath])
    /\ IF i < Len(all_files)
       THEN i' = i + 1 /\ pc' = "open" /\ p' = p
       ELSE i' = i /\ AfterLoop
    /\ UNCHANGED <<disk, run, all_files, df, j, work, failed>>

\* A statement or the commit fails in the store (the connection is lost).
TouchesStore ==
    \/ pc \in {"song_insert", "commit"}
    \/ pc = "artist_insert" /\ ArtistCols \subseteq df.cols
    \/ pc = "time_insert" /\ j <= Len(df.rows)
    \/ pc = "user_insert" /\ j <= Len(UserDf(df))
    \/ pc = "songplay_insert" /\ j <= Len(df.rows) /\ SongplayCols \subseteq df.cols
StorageFailure ==
    /\ TouchesStore
    /\ Raise("OperationalError")

\* main, line 135: conn.close()
Close ==
    /\ pc = "close"
    /\ pc' = "closed"
    /\ UNCHANGED <<disk, run, p, all_files, i, df, j, work, store, executed, stdout, failed>>

\* The pipeline is invoked again over the same, unchanged input.
Rerun ==
    /\ pc = "closed" /\ run < MaxRuns
    /\ run' = run + 1
    /\ p' = 1
    /\ pc' = "walk"
    /\ all_files' = <<>>
    /\ i' = 0
    /\ df' = EmptyFrame
    /\ j' = 0
    /\ stdout' = <<>>
    /\ UNCHANGED <<disk, work, store, executed, failed>>

Next ==
    \/ Walk
    \/ SongOpen
    \/ SongInsert
    \/ ArtistInsert
    \/ LogOpen
    \/ TimeInsert
    \/ SelectUserColumns
    \/ UserInsert
    \/ UserLoopEnd
    \/ SongplayInsert
    \/ SongplayLoopEnd
    \/ Commit
    \/ StorageFailure
    \/ Close
    \/ Rerun

Spec == Init /\ [][Next]_vars

\* ------------------------------------------------- vocabulary of the claims
\* A file of some run is named <<run, filepath, index>>.
FileIds ==
    UNION {{<<r, d, k>> : r \in 1..run, k \in 1..Len(disk[d])} : d \in DOMAIN disk}
FileAt(at) == disk[at[2]][at[3]]
IsNextSong(r) == r.page = "NextSong"
NextSongLines(file) == SelectSeq(file.recs, IsNextSong)
CallIndex(d) == CHOOSE n \in 1..Len(Calls) : Calls[n].filepath = d
Before(a, b) ==
    \/ a[1] < b[1]
    \/ a[1] = b[1] /\ CallIndex(a[2]) < CallIndex(b[2])
    \/ a[1] = b[1] /\ a[2] = b[2] /\ a[3] < b[3]

\* No row of db was created, or had its level written, by file at.
NoneFrom(db, at) ==
    /\ \A t \in Dimensions : \A r \in db[t] : r.src # at /\ (t = "users" => r.upd # at)
    /\ \A k \in DOMAIN db.songplays : db.songplays[k].src # at

\* Every row file at derives is in db: its song and artist, or a time row, a
\* users row and a songplays row of its own for each of its NextSong lines.
AllFrom(db, at) ==
    LET file == FileAt(at)
        ns == NextSongLines(file)
        mine == SelectSeq(db.songplays, LAMBDA r : r.src = at)
    IN IF at[2] = "song_data"
       THEN /\ file.recs # <<>>
            /\ \E r \in db.songs : r.song_id = file.recs[1].song_id
            /\ \E r \in db.artists : r.artist_id = file.recs[1].artist_id
       ELSE /\ \A k \in 1..Len(ns) :
                 /\ \E r \in db.time : r.start_time = FromTimestamp(ns[k].ts)
                 /\ \E r \in db.users : r.user_id = ns[k].userId
            /\ Len(mine) = Len(ns)

Processed(d) == Cardinality({k \in DOMAIN stdout : stdout[k].msg = "processed" /\ stdout[k].path = d})
Issued(stmt) == SelectSeq(executed, LAMBDA e : e.stmt = stmt)

\* (C1) Per-file atomicity: at every moment the committed store holds, of
\* each input file, either every row the file derives or no row of it, and a
\* file whose processing raised before its commit has no row committed.
C1_PerFileAtomicity ==
    /\ \A at \in FileIds : NoneFrom(store, at) \/ AllFrom(store, at)
    /\ failed # NoFailure => NoneFrom(store, failed.at)

\* A log file failed after its time and users statements had run, with song
\* files already committed.
C1_Witness ==
    /\ failed.error = "AttributeError"
    /\ failed.at[2] = "log_data"
    /\ FileAt(failed.at).absent = {"song"}
    /\ store.songs # {}
    /\ store.time = {}

\* The state of a run that has failed.
C2_State ==
    failed # NoFailure =>
        /\ pc = "aborted"
        /\ Here = failed.at
        /\ \A at \in FileIds :
              /\ (at = failed.at \/ Before(failed.at, at)) => NoneFrom(store, at)
              /\ (Before(at, failed.at) /\ at[1] = run) => AllFrom(store, at)
        /\ Processed(filepath) = i - 1
\* (C2) Abort without skip-and-continue: once a file's processing has failed
\* the run is aborted at that file, nothing of that file or of a later file of
\* the run is committed, every earlier file of the run is committed whole, and
\* neither the failing step nor any later one changes the committed store.
C2_AbortNoSkip == []C2_State /\ [][failed' # NoFailure => store' = store]_vars

\* The first of two log files failed after the song files were committed.
C2_Witness ==
    /\ pc = "aborted"
    /\ failed.at[2] = "log_data"
    /\ failed.at[3] < Len(all_files)
    /\ store.songs # {}

\* (C3) Action-type filter: the time and songplays statements a log file
\* issues are, in order, those of its NextSong lines and of no other line; when
\* the file has been processed each NextSong line has one of each, and the
\* file adds as many songplays rows as it has NextSong lines.
C3_ActionTypeFilter ==
    (func = "process_log_file" /\ pc \in {"time_insert", "user_insert", "songplay_insert", "commit"}) =>
        LET ns == NextSongLines(all_files[i])
            ti == Issued("time_table_insert")
            sp == Issued("songplay_table_insert")
        IN /\ Len(ti) <= Len(ns) /\ Len(sp) <= Len(ns)
           /\ \A k \in 1..Len(ti) : ti[k].params.start_time = FromTimestamp(ns[k].ts)
           /\ \A k \in 1..Len(sp) :
                 /\ sp[k].params.start_time = FromTimestamp(ns[k].ts)
                 /\ sp[k].params.user_id = ns[k].userId
           /\ pc = "commit" =>
                 /\ Len(ti) = Len(ns) /\ Len(sp) = Len(ns)
                 /\ Len(work.songplays) = Len(store.songplays) + Len(ns)

\* A log file with two NextSong lines and one other line is about to commit.
C3_Witness ==
    /\ func = "process_log_file" /\ pc = "commit"
    /\ Len(NextSongLines(all_files[i])) = 2
    /\ Len(all_files[i].recs) = 3
    /\ Len(Issued("songplay_table_insert")) = 2

\* (C4) No partial resolution: every songplays row, committed or not, has
\* song_id and artist_id both null or both set.
C4_NoPartialResolution ==
    \A db \in {work, store} : \A k \in DOMAIN db.songplays :
        (db.songplays[k].song_id = NULL) <=> (db.songplays[k].artist_id = NULL)

\* The committed fact table holds a resolved row and an unresolved one.
C4_Witness ==
    /\ \E k \in DOMAIN store.songplays :
          store.songplays[k].song_id # NULL /\ store.songplays[k].artist_id # NULL
    /\ \E k \in DOMAIN store.songplays :
          store.songplays[k].song_id = NULL /\ store.songplays[k].artist_id = NULL

\* The loaded song/artist pairs an event matches by title, name and duration.
MatchingPairs(db, line) ==
    {pr \in db.songs \X db.artists :
        /\ pr[1].artist_id = pr[2].artist_id
        /\ pr[1].title = line.song
        /\ pr[2].name = line.artist
        /\ pr[1].duration = line.length}

\* The rows of the lines handled so far, against the pairs each line matches.
C5_State ==
    (func = "process_log_file" /\ pc \in {"songplay_insert", "commit"}) =>
        LET ns == NextSongLines(all_files[i])
            mine == SelectSeq(work.songplays, LAMBDA r : r.src = Here)
            handled == IF pc = "commit" THEN Len(ns) ELSE j - 1
        IN /\ Len(mine) = handled
           /\ \A k \in 1..handled :
                 LET m == MatchingPairs(work, ns[k])
                 IN /\ Cardinality(m) = 1 =>
                          \E pr \in m : /\ mine[k].song_id = pr[1].song_id
                                        /\ mine[k].artist_id = pr[2].artist_id
                    /\ m = {} => mine[k].song_id = NULL /\ mine[k].artist_id = NULL
\* Handling a line that no pair matches raises nothing of its own.
C5_Step ==
    (/\ func = "process_log_file" /\ pc = "songplay_insert"
     /\ j <= Len(df.rows) /\ SongplayCols \subseteq df.cols
     /\ MatchingPairs(work, df.rows[j]) = {})
        => (pc' # "aborted" \/ failed'.error = "OperationalError")
\* (C5) Fact resolution: each NextSong line the songplay loop has handled has
\* its songplays row; the row carries the ids of the one pair the line
\* matches, or two nulls when no pair matches; and handling a line that no
\* pair matches does not end the run.
C5_FactResolution == []C5_State /\ [][C5_Step]_vars

\* One file's events: the first resolved to the only matching pair, the
\* second matched nothing and was inserted with nulls.
C5_Witness ==
    /\ func = "process_log_file" /\ pc = "commit"
    /\ Cardinality(work.songs) = 1
    /\ \E a, b \in DOMAIN work.songplays :
          /\ a < b
          /\ work.songplays[a].src = Here /\ work.songplays[b].src = Here
          /\ work.songplays[a].song_id = "S1" /\ work.songplays[a].artist_id = "A1"
          /\ work.songplays[b].song_id = NULL

DimCounts(db) == [t \in Dimensions |-> Cardinality(db[t])]
KeysUnique(db) ==
    \A t \in Dimensions : \A r1, r2 \in db[t] : r1[KeyOf(t)] = r2[KeyOf(t)] => r1 = r2

\* A step of a second or later run.
C6_Step ==
    run' >= 2 =>
        /\ DimCounts(store') = DimCounts(store)
        /\ DimCounts(work') = DimCounts(store')
        /\ failed'.error # "UniqueViolation"
\* (C6) Dimension idempotence: natural keys are unique in every dimension
\* table at all times, and no step of a second or later run over the same
\* input changes the row count of a dimension table or fails on a duplicate
\* key.
C6_DimensionIdempotence ==
    [](KeysUnique(store) /\ KeysUnique(work)) /\ [][C6_Step]_vars

\* A second run has ended with rows in all four dimension tables.
C6_Witness ==
    /\ run = 2 /\ pc = "closed"
    /\ \A t \in Dimensions : store[t] # {}
    /\ Cardinality(store.songs) = 2

RECURSIVE EventsOf(_, _)
EventsOf(tree, n) ==
    IF n = 0 THEN <<>> ELSE EventsOf(tree, n - 1) \o NextSongLines(tree[n])
RECURSIVE Repeat(_, _)
Repeat(q, n) == IF n = 0 THEN <<>> ELSE Repeat(q, n - 1) \o q

\* The NextSong events of the log files committed so far, in processing order.
CommittedEvents ==
    IF "log_data" \in DOMAIN disk
    THEN LET tree == disk["log_data"]
         IN Repeat(EventsOf(tree, Len(tree)), run - 1) \o EventsOf(tree, Processed("log_data"))
    ELSE <<>>

\* (C7) User last-write-wins: the committed users table has one row for each
\* user of the committed log files' NextSong events; its level is that of the
\* user's last such event in processing order, its names and gender those of
\* the user's first.
C7_UserLastWriteWins ==
    LET ev == CommittedEvents
        Of(u) == SelectSeq(ev, LAMBDA e : e.userId = u)
    IN /\ \A k \in DOMAIN ev : \E r \in store.users : r.user_id = ev[k].userId
       /\ \A r \in store.users :
             LET mine == Of(r.user_id)
             IN /\ mine # <<>>
                /\ r.level = mine[Len(mine)].level
                /\ r.first_name = mine[1].firstName
                /\ r.last_name = mine[1].lastName
                /\ r.gender = mine[1].gender

\* A user created as "A"/free and seen last as "A2"/paid.
C7_Witness ==
    /\ pc = "closed"
    /\ \E r \in store.users : r.user_id = "7" /\ r.first_name = "A" /\ r.level = "paid"

\* (C8) Metadata record cardinality, as claimed: process_song_file returns
\* only for a file of exactly one record with every required field, having
\* issued one songs and one artists insert; for any other file it does not
\* return, and no row of the file is committed.
C8_RecordCardinality ==
    func = "process_song_file" /\ i \in DOMAIN all_files =>
        LET file == all_files[i]
            single == file.text = "json" /\ Len(file.recs) = 1 /\ file.absent = {}
        IN /\ pc = "commit" =>
                 /\ single
                 /\ Len(Issued("song_table_insert")) = 1
                 /\ Len(Issued("artist_table_insert")) = 1
           /\ ~single => NoneFrom(store, Here)

\* (C9) Two-phase sequential order: log files are handled only once every
\* song file has been processed and committed; the statements of the open
\* transaction all belong to the current file; and a file starts with nothing
\* uncommitted and with every earlier file of its tree committed.
C9_TwoPhaseSequential ==
    /\ \A k \in DOMAIN executed : executed[k].at = Here
    /\ pc = "open" => /\ executed = <<>>
                      /\ work = store
                      /\ Processed(filepath) = i - 1
    /\ (filepath = "log_data" \/ Processed("log_data") > 0) =>
          /\ "song_data" \in DOMAIN disk
          /\ Processed("song_data") = Len(disk["song_data"])
          /\ \A k \in 1..Len(disk["song_data"]) : AllFrom(store, <<run, "song_data", k>>)

\* The second log file starts after two song files.
C9_Witness ==
    /\ pc = "open" /\ filepath = "log_data" /\ i = 2
    /\ Len(disk["song_data"]) = 2

IsPrefix(a, b) == Len(a) <= Len(b) /\ SubSeq(b, 1, Len(a)) = a

\* The fact rows at the end of a run.
C10_State ==
    (pc = "closed" /\ "log_data" \in DOMAIN disk) =>
        /\ Len(store.songplays) = run * Len(EventsOf(disk["log_data"], Len(disk["log_data"])))
        /\ \A r \in 1..run : \A k \in 1..Len(disk["log_data"]) :
              LET ns == NextSongLines(disk["log_data"][k])
                  mine == SelectSeq(store.songplays, LAMBDA x : x.src = <<r, "log_data", k>>)
              IN /\ Len(mine) = Len(ns)
                 /\ \A n \in 1..Len(mine) :
                       /\ mine[n].start_time = FromTimestamp(ns[n].ts)
                       /\ mine[n].user_id = ns[n].userId
                       /\ mine[n].level = ns[n].level
                       /\ mine[n].session_id = ns[n].sessionId
\* (C10) Append-only fact table: a step only ever appends to the committed
\* songplays rows, and when a run has ended every run so far has left, for
\* each log file, one row of its own per NextSong line, in line order.
C10_FactAppendOnly == []C10_State /\ [][IsPrefix(store.songplays, store'.songplays)]_vars

\* The same log file, loaded by two runs, has left two copies of its rows.
C10_Witness ==
    /\ pc = "closed" /\ run = 2
    /\ Len(disk["log_data"]) = 1
    /\ Len(store.songplays) = 4

====
